---- MODULE Spec2Model ----
(***************************************************************************)
(* Transcript annotation pipeline of foxnews-scraper                      *)
(* (src/process_transcripts.py, src/process_transcripts_Base.py).          *)
(*                                                                         *)
(* A response text is a sequence of tokens.  The literal strings the code  *)
(* searches for are single tokens: "<think>", "</think>", the three-backtick  *)
(* fence, the tag "json", a whitespace character, "{" and "}".  A "body"    *)
(* token is a well-formed, comma-separated run of key: value pairs and     *)
(* carries the mapping it denotes; "x" is any other text.  JSON objects    *)
(* are flat (no nested object values).                                     *)
(*                                                                         *)
(* A Python dict / JSON object is a set of <<key, value>> pairs with       *)
(* unique keys; JSON values are strings: "true", "false", "null", "0",    *)
(* "1", "''" (the empty string), and any other string for a JSON string.   *)
(***************************************************************************)
EXTENDS Naturals, Sequences, FiniteSets, TLC

VARIABLES
    pc,           \* position of the program; "crashed" is an uncaught exception
    backend,      \* the responses the model backend can give in this run
    input,        \* the input file: [readable, shape, bad, fields, hasUtt, utts]
    data,         \* process_single_file: data (top-level fields but 'utterances')
    utterances,   \* process_single_file: utterances (a list of dicts, mutated in place)
    i,            \* process_single_file: loop index (0-based)
    sample,       \* determine_is_interview: [headline, lines] put into the prompt
    window,       \* analyze_utterance: its arguments, the context slots
    caller,       \* who called chat_with_retry: "interview", "analyze", "lone", "none"
    max_retries,  \* chat_with_retry: max_retries
    attempt,      \* chat_with_retry: loop variable attempt
    calls,        \* number of ollama.chat calls made by the current chat_with_retry
    history,      \* outcome of each of those calls: "throw", "nocoerce", "coerce"
    response,     \* the last backend response: [threw, text]
    ret,          \* value returned by chat_with_retry / extract_json_from_response
    interviewCalls, \* number of calls of determine_is_interview
    interviewRets, \* what chat_with_retry returned to determine_is_interview, per call
    queried,      \* utterance indices (0-based) analyze_utterance was called for
    failed,       \* utterance indices whose query returned None
    output,       \* the output file: [written, fields, hasUtt, utts]
    exchanges,    \* number of ollama.chat calls made for the current file
    variant,      \* "main": process_transcripts.py, "base": process_transcripts_Base.py
    files_to_process, \* main: the input files of the batch, in order
    idx,          \* main: loop variable idx, the 1-based number of the current file
    outputs       \* per file main is done with: [output, exchanges]

vars == <<pc, backend, input, data, utterances, i, sample, window,
          caller, max_retries, attempt, calls, history, response, ret,
          interviewCalls, interviewRets, queried, failed, output,
          exchanges, variant, files_to_process, idx, outputs>>

----------------------------------------------------------------------------
(* Bounds *)

\* chunks concatenated into a response text given to extract_json_from_response
MaxChunks == 3
\* largest max_retries given to a chat_with_retry called on its own
MaxRetries == 4
\* utterances of a transcript annotated against the full backend
MaxUtt == 2
\* utterances of a long transcript (beyond the 6 sampled ones)
MaxLongUtt == 7
\* utterances of a transcript whose windows are compared across the variants
MaxWinUtt == 2
\* files of a batch
MaxFiles == 2
\* utterances of a transcript whose exchanges are counted
MaxFairUtt == 4

----------------------------------------------------------------------------
(* Python dicts *)

HasKey(d, k) == \E p \in d : p[1] = k

\* d.get(k, default)
Get(d, k, default) ==
    IF HasKey(d, k) THEN (CHOOSE p \in d : p[1] = k)[2] ELSE default

\* a new dict bound instead of the key set
PutFresh(d, k, v) == {<<k, v>>}

\* d[k] = v
Put(d, k, v) == {p \in d : p[1] # k} \cup {<<k, v>>}

\* the dict without the keys ks
Without(d, ks) == {p \in d : p[1] \notin ks}

\* truth value of a JSON value held by Python: False, None, 0 and '' are false
Truthy(v) == v \notin {"false", "null", "0", "''"}

\* Optional[dict]: what extract_json_from_response and chat_with_retry return
None == [ok |-> FALSE, obj |-> {}]
Some(d) == [ok |-> TRUE, obj |-> d]

\* truth value of an Optional[dict]: None and the empty dict are false
TruthyResult(r) == r.ok /\ r.obj # {}

----------------------------------------------------------------------------
(* Tokens and texts *)

Tok(t) == [t |-> t, d |-> {}]
Body(d) == [t |-> "body", d |-> d]

THINK == Tok("<think>")
ENDTHINK == Tok("</think>")
FENCE == Tok("fence")
JSONTAG == Tok("json")
WS == Tok(" ")
LB == Tok("{")
RB == Tok("}")
X == Tok("x")

RECURSIVE Concat(_)
Concat(ss) == IF ss = <<>> THEN <<>> ELSE Head(ss) \o Concat(Tail(ss))

\* s[from .. to] (1-based, inclusive), empty when to < from
Slice(s, from, to) == IF to < from THEN <<>> ELSE SubSeq(s, from, to)

Positions(s, tok) == {p \in 1..Len(s) : s[p] = tok}

Min(S) == CHOOSE m \in S : \A n \in S : m <= n
Max(S) == CHOOSE m \in S : \A n \in S : m >= n

----------------------------------------------------------------------------
(* extract_json_from_response *)

\* re.sub of the lazy think pattern with DOTALL: every THINK token that has
\* an ENDTHINK after it is removed up to the first such ENDTHINK, left to
\* right, without overlap
RECURSIVE StripThink(_)
StripThink(s) ==
    IF s = <<>> THEN <<>>
    ELSE IF Head(s) = THINK /\ Positions(Tail(s), ENDTHINK) # {}
         THEN StripThink(Slice(Tail(s), Min(Positions(Tail(s), ENDTHINK)) + 1, Len(s) - 1))
         ELSE <<Head(s)>> \o StripThink(Tail(s))

\* first position at or after p that holds no whitespace (the whitespace
\* run is greedy, and what follows it in the pattern is never whitespace)
RECURSIVE SkipWs(_, _)
SkipWs(s, p) == IF p <= Len(s) /\ s[p] = WS THEN SkipWs(s, p + 1) ELSE p

\* code_block_pattern tried at position p (fence, optional json tag,
\* whitespace, the group from an opening brace lazily to a closing brace,
\* whitespace, fence): the span of group 1, or <<>> when the pattern does
\* not match there.  The group is lazy: it ends at the first closing brace
\* that is followed by optional whitespace and a fence.
FenceMatchAt(s, p) ==
    IF p > Len(s) \/ s[p] # FENCE THEN <<>>
    ELSE LET a == IF p + 1 <= Len(s) /\ s[p + 1] = JSONTAG THEN p + 2 ELSE p + 1
             b == SkipWs(s, a)
             closers == {q \in (b + 1)..Len(s) :
                           /\ s[q] = RB
                           /\ SkipWs(s, q + 1) <= Len(s)
                           /\ s[SkipWs(s, q + 1)] = FENCE}
         IN  IF b <= Len(s) /\ s[b] = LB /\ closers # {}
             THEN <<b, Min(closers)>>
             ELSE <<>>

\* re.search: the match at the leftmost position that has one
FenceSearch(s) ==
    LET starts == {p \in 1..Len(s) : FenceMatchAt(s, p) # <<>>}
    IN  IF starts = {} THEN <<>> ELSE FenceMatchAt(s, Min(starts))

\* json.loads of a span: the object, or raised for text that is no JSON object
JsonLoads(span) ==
    LET inner == SelectSeq(Slice(span, 2, Len(span) - 1), LAMBDA t : t # WS)
    IN  IF Len(span) < 2 \/ span[1] # LB \/ span[Len(span)] # RB
        THEN [raised |-> TRUE, val |-> None]
        ELSE IF inner = <<>> THEN [raised |-> FALSE, val |-> Some({})]
        ELSE IF Len(inner) = 1 /\ inner[1].t = "body"
             THEN [raised |-> FALSE, val |-> Some(inner[1].d)]
             ELSE [raised |-> TRUE, val |-> None]

\* the brace span tried before the fenced block
ExtractTryBraceFirst(response_text) ==
    LET text == StripThink(response_text)
        m == FenceSearch(text)
        start_idx == Positions(text, LB)
        end_idx == Positions(text, RB)
    IN  IF start_idx # {} /\ end_idx # {} /\ Max(end_idx) > Min(start_idx)
        THEN JsonLoads(Slice(text, Min(start_idx), Max(end_idx)))
        ELSE IF m # <<>> THEN JsonLoads(Slice(text, m[1], m[2]))
             ELSE [raised |-> FALSE, val |-> None]

\* the fallback stopping at the first closing brace after the first opening
\* brace, which tries the first object instead of the whole span
ExtractTryFirstObject(response_text) ==
    LET text == StripThink(response_text)
        m == FenceSearch(text)
        start_idx == Positions(text, LB)
        end_idx == Positions(text, RB)
    IN  IF m # <<>> THEN JsonLoads(Slice(text, m[1], m[2]))
        ELSE IF start_idx # {} /\ end_idx # {} /\ Max(end_idx) > Min(start_idx)
             THEN JsonLoads(Slice(text, Min(start_idx),
                                  Min({q \in end_idx : q > Min(start_idx)})))
             ELSE [raised |-> FALSE, val |-> None]

\* the body of the try block (lines 38-56)
ExtractTry(response_text) ==
    LET text == StripThink(response_text)
        m == FenceSearch(text)
        start_idx == Positions(text, LB)
        end_idx == Positions(text, RB)
    IN  IF m # <<>> THEN JsonLoads(Slice(text, m[1], m[2]))
        ELSE IF start_idx # {} /\ end_idx # {} /\ Max(end_idx) > Min(start_idx)
             THEN JsonLoads(Slice(text, Min(start_idx), Max(end_idx)))
             ELSE [raised |-> FALSE, val |-> None]

\* the try block without its except clause
ExtractNoExcept(response_text) == ExtractTry(response_text)

\* try: ... except Exception: return None.  The outcome is [raised, val]:
\* raised tells whether an exception leaves the function.
extract_json_from_response(response_text) ==
    LET r == ExtractTry(response_text)
    IN  IF r.raised THEN [raised |-> FALSE, val |-> None] ELSE r

----------------------------------------------------------------------------
(* The model backend: ollama.chat either raises or returns a response whose  *)
(* content is a text.                                                        *)

Throw == [threw |-> TRUE, text |-> <<>>]
Reply(text) == [threw |-> FALSE, text |-> text]
NoResponse == [threw |-> FALSE, text |-> <<>>]

D_QI == {<<"isQuestion", "true">>, <<"isAnswer", "false">>,
         <<"didInterrupt", "true">>, <<"isInterview", "true">>}
D_A == {<<"isQuestion", "false">>, <<"isAnswer", "true">>,
        <<"didInterrupt", "false">>}
\* non-boolean values: null, a string, the string 'false'
D_STR == {<<"isInterview", "null">>, <<"isQuestion", "yes">>,
          <<"didInterrupt", "'false'">>}

\* an object without isInterview, isQuestion and didInterrupt
D_PART == {<<"isAnswer", "true">>}

R_NOBRACE == <<X>>
R_EMPTY == <<LB, RB>>
R_FENCED == <<THINK, X, ENDTHINK, FENCE, JSONTAG, WS, LB, Body(D_QI), RB, WS, FENCE>>
R_BARE == <<X, LB, Body(D_A), RB, X>>
R_STR == <<LB, Body(D_STR), RB>>
R_PART == <<LB, WS, Body(D_PART), RB>>

AllResponses ==
    {Throw} \cup {Reply(t) : t \in {R_NOBRACE, R_EMPTY, R_FENCED, R_BARE, R_STR, R_PART}}

\* the backend a long transcript is annotated against
LongResponses == {Throw, Reply(R_FENCED)}

----------------------------------------------------------------------------
(* chat_with_retry *)

\* default of max_retries, and what both callers pass
DefaultRetries == 3

\* one attempt counter for all the queries of a file: a query starts where
\* the exchanges made so far have left it
EnterChatSharedBudget(who, m) ==
    /\ caller' = who
    /\ max_retries' = m
    /\ attempt' = exchanges + 1
    /\ calls' = 0
    /\ history' = <<>>
    /\ response' = NoResponse
    /\ ret' = None
    /\ pc' = IF m >= 1 THEN "chat" ELSE "returned"

\* the call: for attempt in range(1, max_retries + 1) starts, or is empty
EnterChat(who, m) ==
    /\ caller' = who
    /\ max_retries' = m
    /\ attempt' = 1
    /\ calls' = 0
    /\ history' = <<>>
    /\ response' = NoResponse
    /\ ret' = None
    /\ pc' = IF m >= 1 THEN "chat" ELSE "returned"

\* the caller has taken the returned value
LeaveChat ==
    /\ caller' = "none"
    /\ max_retries' = 0
    /\ attempt' = 0
    /\ calls' = 0
    /\ history' = <<>>
    /\ response' = NoResponse
    /\ ret' = None

\* the truth value tested instead: if data
CoercedNonEmpty(val) == val.ok /\ val.obj # {}

\* data is not None
Coerced(val) == val.ok

\* the loop bound taken one too small: range(1, max_retries)
AfterExchangeShortRange(kind, r, val) ==
    /\ calls' = calls + 1
    /\ exchanges' = exchanges + 1
    /\ history' = Append(history, kind)
    /\ response' = r
    /\ IF kind = "coerce"
       THEN pc' = "returned" /\ ret' = val /\ attempt' = attempt
       ELSE IF attempt + 1 < max_retries
            THEN pc' = "chat" /\ ret' = ret /\ attempt' = attempt + 1
            ELSE pc' = "returned" /\ ret' = None /\ attempt' = attempt
    /\ UNCHANGED <<variant, files_to_process, idx, outputs,
                   backend, input, data, utterances, i, sample, window, caller,
                   max_retries, interviewCalls, interviewRets, queried, failed,
                   output>>

\* the rest of one iteration after ollama.chat: kind is what the attempt
\* came to, val the value extracted from the response
AfterExchange(kind, r, val) ==
    /\ calls' = calls + 1
    /\ exchanges' = exchanges + 1
    /\ history' = Append(history, kind)
    /\ response' = r
    /\ IF kind = "coerce"
       THEN pc' = "returned" /\ ret' = val /\ attempt' = attempt
       ELSE IF attempt < max_retries
            THEN pc' = "chat" /\ ret' = ret /\ attempt' = attempt + 1
            ELSE pc' = "returned" /\ ret' = None /\ attempt' = attempt
    /\ UNCHANGED <<variant, files_to_process, idx, outputs,
                   backend, input, data, utterances, i, sample, window, caller,
                   max_retries, interviewCalls, interviewRets, queried, failed,
                   output>>

\* the exception of ollama.chat not caught
ChatThrowsPropagates ==
    /\ pc = "chat"
    /\ Throw \in backend
    /\ pc' = "crashed"
    /\ exchanges' = exchanges + 1
    /\ UNCHANGED <<variant, files_to_process, idx, outputs,
                   backend, input, data, utterances, i, sample, window, caller,
                   max_retries, attempt, calls, history, response, ret,
                   interviewCalls, interviewRets, queried, failed, output>>

\* ollama.chat (or the subscript of its response) raises: except Exception
\* logs and the loop goes on
ChatThrows ==
    /\ pc = "chat"
    /\ Throw \in backend
    /\ AfterExchange("throw", Throw, None)

\* ollama.chat returns: the content goes through extract_json_from_response
ChatReplies ==
    /\ pc = "chat"
    /\ \E r \in backend :
         /\ ~r.threw
         /\ LET e == extract_json_from_response(r.text)
            IN  IF e.raised THEN AfterExchange("throw", r, None)
                ELSE IF Coerced(e.val) THEN AfterExchange("coerce", r, e.val)
                ELSE AfterExchange("nocoerce", r, None)

----------------------------------------------------------------------------
(* determine_is_interview, analyze_utterance, process_single_file           *)

\* utterances[:6]
SampleSize == 6

\* the fields the annotation writes
OwnedUtteranceFields == {"isQuestion", "isAnswer", "isLastSentenceInterrupted"}
OwnedFields == {"isInterview"}

\* what the prompts show of an utterance: u.get('speaker', 'Unknown') and
\* u.get('sentences', '')
Slot(u) == [speaker |-> Get(u, "speaker", "Unknown"), text |-> Get(u, "sentences", "''")]

\* the slot of an utterance that does not exist
NA == [speaker |-> "N/A", text |-> "N/A"]

\* the slice left out: every utterance is sampled
SampleOfAll(utts) == [j \in 1..Len(utts) |-> Slot(utts[j])]

\* the lines of sample_text, one per utterance of utterances[:6]
SampleOf(utts) ==
    [j \in 1..(IF Len(utts) < SampleSize THEN Len(utts) ELSE SampleSize) |-> Slot(utts[j])]

\* the next slot filled one utterance too late: i < len(utterances) - 2
WindowOfShortNext(utts, k) ==
    [pp |-> IF k >= 2 THEN Slot(utts[k - 1]) ELSE NA,
     p |-> IF k >= 1 THEN Slot(utts[k]) ELSE NA,
     c |-> Slot(utts[k + 1]),
     n |-> IF k < Len(utts) - 2 THEN Slot(utts[k + 2]) ELSE NA]

\* process_transcripts_Base.py: prev_text = "" and prev_speaker = "", the
\* slot of a previous utterance that does not exist
NoPrev == [speaker |-> "''", text |-> "''"]

\* process_transcripts_Base.py: the context of utterance i (0-based):
\* previous, current
WindowOfBase(utts, k) ==
    [p |-> IF k > 0 THEN Slot(utts[k]) ELSE NoPrev,
     c |-> Slot(utts[k + 1])]

\* the context of utterance i (0-based): pre-previous, previous, current, next
WindowOf(utts, k) ==
    [pp |-> IF k >= 2 THEN Slot(utts[k - 1]) ELSE NA,
     p |-> IF k >= 1 THEN Slot(utts[k]) ELSE NA,
     c |-> Slot(utts[k + 1]),
     n |-> IF k < Len(utts) - 1 THEN Slot(utts[k + 2]) ELSE NA]

\* the default taken to be True
InterviewOfDefaultsTrue(r) ==
    IF TruthyResult(r) /\ HasKey(r.obj, "isInterview")
    THEN Get(r.obj, "isInterview", "false")
    ELSE "true"

\* what determine_is_interview returns for the value chat_with_retry gave it
InterviewOf(r) ==
    IF TruthyResult(r) /\ HasKey(r.obj, "isInterview")
    THEN Get(r.obj, "isInterview", "false")
    ELSE "false"

\* the else branch left out: a failed query leaves the utterance as it was
ApplyResultOfNoDefault(utts, k, result) ==
    LET cur == IF TruthyResult(result)
               THEN Put(Put(utts[k + 1], "isQuestion", Get(result.obj, "isQuestion", "false")),
                        "isAnswer", Get(result.obj, "isAnswer", "false"))
               ELSE utts[k + 1]
        withCur == [utts EXCEPT ![k + 1] = cur]
    IN  IF TruthyResult(result) /\ Truthy(Get(result.obj, "didInterrupt", "false")) /\ k > 0
        THEN [withCur EXCEPT ![k] = Put(@, "isLastSentenceInterrupted", "true")]
        ELSE withCur

\* the flag put on the current utterance instead of the previous one
ApplyResultOfFlagsCurrent(utts, k, result) ==
    LET cur == IF TruthyResult(result)
               THEN Put(Put(utts[k + 1], "isQuestion", Get(result.obj, "isQuestion", "false")),
                        "isAnswer", Get(result.obj, "isAnswer", "false"))
               ELSE Put(Put(utts[k + 1], "isQuestion", "false"), "isAnswer", "false")
        withCur == [utts EXCEPT ![k + 1] = cur]
    IN  IF TruthyResult(result) /\ Truthy(Get(result.obj, "didInterrupt", "false")) /\ k > 0
        THEN [withCur EXCEPT ![k + 1] = Put(@, "isLastSentenceInterrupted", "true")]
        ELSE withCur

\* the flag of the previous utterance set to false when the current one did
\* not interrupt
ApplyResultOfClearsFlag(utts, k, result) ==
    LET cur == IF TruthyResult(result)
               THEN Put(Put(utts[k + 1], "isQuestion", Get(result.obj, "isQuestion", "false")),
                        "isAnswer", Get(result.obj, "isAnswer", "false"))
               ELSE Put(Put(utts[k + 1], "isQuestion", "false"), "isAnswer", "false")
        withCur == [utts EXCEPT ![k + 1] = cur]
    IN  IF k > 0
        THEN [withCur EXCEPT ![k] = Put(@, "isLastSentenceInterrupted",
                 IF TruthyResult(result) /\ Truthy(Get(result.obj, "didInterrupt", "false"))
                 THEN "true" ELSE "false")]
        ELSE withCur

\* lines 206-214: the utterances after the result of utterance k (0-based)
\* has been applied
ApplyResultOf(utts, k, result) ==
    LET cur == IF TruthyResult(result)
               THEN Put(Put(utts[k + 1], "isQuestion", Get(result.obj, "isQuestion", "false")),
                        "isAnswer", Get(result.obj, "isAnswer", "false"))
               ELSE Put(Put(utts[k + 1], "isQuestion", "false"), "isAnswer", "false")
        withCur == [utts EXCEPT ![k + 1] = cur]
    IN  IF TruthyResult(result) /\ Truthy(Get(result.obj, "didInterrupt", "false")) /\ k > 0
        THEN [withCur EXCEPT ![k] = Put(@, "isLastSentenceInterrupted", "true")]
        ELSE withCur

\* data.get on a parsed document that is not a JSON object raises
GetRaises(doc) == doc.shape = "top"

\* utterances[:6] on a value that is not a list, or u.get on a sampled
\* utterance that is not a JSON object, raises
SampleRaises(doc) ==
    \/ doc.shape = "list"
    \/ doc.shape = "item" /\ doc.bad < SampleSize

\* .get on an utterance of the 4-slot window of utterance k (0-based) that
\* is not a JSON object raises
WindowRaises(doc, k) ==
    /\ doc.shape = "item"
    /\ \/ doc.bad = k
       \/ k >= 2 /\ doc.bad = k - 2
       \/ k >= 1 /\ doc.bad = k - 1
       \/ k < Len(doc.utts) - 1 /\ doc.bad = k + 1

\* the read without its try: the error of open or json.load leaves the
\* function
ReadFileUncaught ==
    /\ pc = "start"
    /\ IF ~input.readable
       THEN /\ pc' = "crashed"
            /\ UNCHANGED <<data, utterances>>
       ELSE IF GetRaises(input)
       THEN /\ pc' = "crashed"
            /\ UNCHANGED <<data, utterances>>
       ELSE /\ data' = input.fields
            /\ utterances' = IF input.hasUtt THEN input.utts ELSE <<>>
            /\ pc' = "loaded"
    /\ UNCHANGED <<variant, files_to_process, idx, outputs, exchanges,
                   backend, input, i, sample, window, caller, max_retries, attempt,
                   calls, history, response, ret, interviewCalls, interviewRets,
                   queried, failed, output>>

\* lines 155-163: json.load of the input file, or the return on a read error;
\* nothing catches what data.get raises
ReadFile ==
    /\ pc = "start"
    /\ IF ~input.readable
       THEN /\ pc' = "done"
            /\ UNCHANGED <<data, utterances>>
       ELSE IF GetRaises(input)
       THEN /\ pc' = "crashed"
            /\ UNCHANGED <<data, utterances>>
       ELSE /\ data' = input.fields
            /\ utterances' = IF input.hasUtt THEN input.utts ELSE <<>>
            /\ pc' = "loaded"
    /\ UNCHANGED <<variant, files_to_process, idx, outputs, exchanges,
                   backend, input, i, sample, window, caller, max_retries, attempt,
                   calls, history, response, ret, interviewCalls, interviewRets,
                   queried, failed, output>>

\* lines 166, 83-107: the sample is built and the interview query starts
DetermineIsInterview ==
    /\ pc = "loaded"
    /\ interviewCalls' = interviewCalls + 1
    /\ IF SampleRaises(input)
       THEN /\ pc' = "crashed"
            /\ UNCHANGED <<sample, caller, max_retries, attempt, calls, history,
                           response, ret>>
       ELSE /\ sample' = [headline |-> Get(data, "headline", "''"),
                          lines |-> SampleOf(utterances)]
            /\ EnterChat("interview", DefaultRetries)
    /\ UNCHANGED <<variant, files_to_process, idx, outputs, exchanges,
                   backend, input, data, utterances, i, window, interviewRets,
                   queried, failed, output>>

\* lines 109-113, 166: data['isInterview'] is assigned
SetIsInterview ==
    /\ pc = "returned"
    /\ caller = "interview"
    /\ data' = Put(data, "isInterview", InterviewOf(ret))
    /\ interviewRets' = Append(interviewRets, ret)
    /\ i' = 0
    /\ pc' = "loop"
    /\ LeaveChat
    /\ UNCHANGED <<variant, files_to_process, idx, outputs, exchanges,
                   backend, input, utterances, sample, window, interviewCalls,
                   queried, failed, output>>

\* lines 171-204, 115-147: the window of utterance i is built and its query starts
AnalyzeUtterance ==
    /\ pc = "loop"
    /\ i < Len(utterances)
    /\ IF WindowRaises(input, i)
       THEN /\ pc' = "crashed"
            /\ UNCHANGED <<window, queried, caller, max_retries, attempt, calls,
                           history, response, ret>>
       ELSE /\ window' = IF variant = "base" THEN WindowOfBase(utterances, i)
                                            ELSE WindowOf(utterances, i)
            /\ queried' = Append(queried, i)
            /\ EnterChat("analyze", DefaultRetries)
    /\ UNCHANGED <<variant, files_to_process, idx, outputs, exchanges,
                   backend, input, data, utterances, i, sample, interviewCalls,
                   interviewRets, failed, output>>

\* lines 206-214: the result is applied and the loop moves on
ApplyResult ==
    /\ pc = "returned"
    /\ caller = "analyze"
    /\ utterances' = ApplyResultOf(utterances, i, ret)
    /\ failed' = IF ret.ok THEN failed ELSE failed \cup {i}
    /\ i' = i + 1
    /\ pc' = "loop"
    /\ LeaveChat
    /\ UNCHANGED <<variant, files_to_process, idx, outputs, exchanges,
                   backend, input, data, sample, window, interviewCalls,
                   interviewRets, queried, output>>

\* lines 216-217: json.dump of data, which holds the list utterances when the
\* input had the key
WriteFile ==
    /\ pc = "loop"
    /\ i >= Len(utterances)
    /\ output' = [written |-> TRUE, fields |-> data, hasUtt |-> input.hasUtt,
                  utts |-> IF input.hasUtt THEN utterances ELSE <<>>]
    /\ pc' = "done"
    /\ UNCHANGED <<variant, files_to_process, idx, outputs, exchanges,
                   backend, input, data, utterances, i, sample, window, caller,
                   max_retries, attempt, calls, history, response, ret,
                   interviewCalls, interviewRets, queried, failed>>

----------------------------------------------------------------------------
(* Inputs *)

U_PLAIN == {<<"speaker", "A">>, <<"sentences", "hi">>, <<"timestamp", "t1">>}
\* no speaker, empty text, flags left by an earlier run
U_BARE == {<<"sentences", "''">>, <<"isLastSentenceInterrupted", "false">>,
           <<"isQuestion", "true">>}
UtteranceInputs == {U_PLAIN, U_BARE}

\* utterance j of a long transcript
U_LONG(j) == {<<"speaker", ToString(j)>>, <<"sentences", "hi">>}

F_PLAIN == {<<"headline", "h">>, <<"url", "u">>}
\* no headline, isInterview left by an earlier run
F_BARE == {<<"isInterview", "true">>, <<"channel", "c">>}
FieldInputs == {F_PLAIN, F_BARE}

NoOutput == [written |-> FALSE, fields |-> {}, hasUtt |-> FALSE, utts |-> <<>>]
NoInput == [readable |-> FALSE, shape |-> "ok", bad |-> 0, fields |-> {},
            hasUtt |-> FALSE, utts |-> <<>>]

ShortInputs ==
    {[readable |-> TRUE, shape |-> "ok", bad |-> 0, fields |-> f, hasUtt |-> TRUE,
      utts |-> u] :
        f \in FieldInputs, u \in UNION {[1..n -> UtteranceInputs] : n \in 0..MaxUtt}}
    \cup {[readable |-> TRUE, shape |-> "ok", bad |-> 0, fields |-> F_PLAIN,
            hasUtt |-> FALSE, utts |-> <<>>], NoInput}

LongInputs ==
    {[readable |-> TRUE, shape |-> "ok", bad |-> 0, fields |-> F_PLAIN, hasUtt |-> TRUE,
      utts |-> [j \in 1..n |-> U_LONG(j)]] : n \in (MaxUtt + 1)..MaxLongUtt}

\* what holds before anything has run
Idle ==
    /\ data = {}
    /\ utterances = <<>>
    /\ i = 0
    /\ sample = [headline |-> "''", lines |-> <<>>]
    /\ window = [pp |-> NA, p |-> NA, c |-> NA, n |-> NA]
    /\ interviewCalls = 0
    /\ interviewRets = <<>>
    /\ queried = <<>>
    /\ failed = {}
    /\ output = NoOutput
    /\ exchanges = 0

\* process_single_file called on its own, not from the loop of main
NoBatch ==
    /\ files_to_process = <<>>
    /\ idx = 0
    /\ outputs = <<>>

IdleChat ==
    /\ caller = "none"
    /\ max_retries = 0
    /\ attempt = 0
    /\ calls = 0
    /\ history = <<>>
    /\ response = NoResponse
    /\ ret = None

\* process_single_file on one input file
Init ==
    /\ pc = "start"
    /\ variant = "main"
    /\ NoBatch
    /\ \/ input \in ShortInputs /\ backend = AllResponses
       \/ input \in LongInputs /\ backend = LongResponses
    /\ Idle
    /\ IdleChat

Next ==
    \/ ReadFile
    \/ DetermineIsInterview
    \/ ChatThrows
    \/ ChatReplies
    \/ SetIsInterview
    \/ AnalyzeUtterance
    \/ ApplyResult
    \/ WriteFile

Spec == Init /\ [][Next]_vars

----------------------------------------------------------------------------
(* process_single_file against a backend whose every exchange comes to an  *)
(* end: it throws, returns text that does not coerce, or returns an object  *)

EndingResponses == {Throw, Reply(R_NOBRACE), Reply(R_FENCED)}

FairInputs ==
    {[readable |-> TRUE, shape |-> "ok", bad |-> 0, fields |-> F_PLAIN, hasUtt |-> TRUE,
      utts |-> [j \in 1..n |-> U_PLAIN]] : n \in 0..MaxFairUtt}

InitFair ==
    /\ pc = "start"
    /\ variant = "main"
    /\ NoBatch
    /\ input \in FairInputs
    /\ backend = EndingResponses
    /\ Idle
    /\ IdleChat

\* the program is sequential and runs on: a step that can be taken is taken
SpecFair == InitFair /\ [][Next]_vars /\ WF_vars(Next)

----------------------------------------------------------------------------
(* main: process_single_file on each file of a batch                        *)

\* lines 257-258: the loop takes the next file and calls process_single_file,
\* whose locals start afresh
NextFile ==
    /\ pc = "main"
    /\ idx < Len(files_to_process)
    /\ idx' = idx + 1
    /\ input' = files_to_process[idx + 1]
    /\ pc' = "start"
    /\ data' = {}
    /\ utterances' = <<>>
    /\ i' = 0
    /\ sample' = [headline |-> "''", lines |-> <<>>]
    /\ window' = [pp |-> NA, p |-> NA, c |-> NA, n |-> NA]
    /\ interviewCalls' = 0
    /\ interviewRets' = <<>>
    /\ queried' = <<>>
    /\ failed' = {}
    /\ output' = NoOutput
    /\ exchanges' = 0
    /\ UNCHANGED <<variant, files_to_process, outputs, backend, caller, max_retries,
                   attempt, calls, history, response, ret>>

\* line 258: process_single_file has returned to the loop
FileReturns ==
    /\ pc = "done"
    /\ outputs' = Append(outputs, [output |-> output, exchanges |-> exchanges])
    /\ pc' = "main"
    /\ UNCHANGED <<variant, files_to_process, idx, exchanges,
                   backend, input, data, utterances, i, sample, window, caller,
                   max_retries, attempt, calls, history, response, ret,
                   interviewCalls, interviewRets, queried, failed, output>>

\* the files of a batch: one that cannot be read, a transcript without
\* utterances, a transcript of one utterance
BatchInputs ==
    {NoInput,
     [readable |-> TRUE, shape |-> "ok", bad |-> 0, fields |-> F_PLAIN, hasUtt |-> TRUE,
      utts |-> <<>>],
     [readable |-> TRUE, shape |-> "ok", bad |-> 0, fields |-> F_PLAIN, hasUtt |-> TRUE,
      utts |-> <<U_PLAIN>>]}

InitBatch ==
    /\ pc = "main"
    /\ variant = "main"
    /\ files_to_process \in UNION {[1..n -> BatchInputs] : n \in 0..MaxFiles}
    /\ idx = 0
    /\ outputs = <<>>
    /\ input = NoInput
    /\ backend = LongResponses
    /\ Idle
    /\ IdleChat

NextBatch ==
    \/ NextFile
    \/ ReadFile
    \/ DetermineIsInterview
    \/ ChatThrows
    \/ ChatReplies
    \/ SetIsInterview
    \/ AnalyzeUtterance
    \/ ApplyResult
    \/ WriteFile
    \/ FileReturns

SpecBatch == InitBatch /\ [][NextBatch]_vars

----------------------------------------------------------------------------
(* process_single_file on any document json.load can return                  *)

\* documents that are not a transcript: the top-level value is a list, the
\* value of utterances is null, utterance bad (0-based) is a string
OtherShapes ==
    {[readable |-> TRUE, shape |-> "top", bad |-> 0, fields |-> {}, hasUtt |-> FALSE,
      utts |-> <<>>],
     [readable |-> TRUE, shape |-> "list", bad |-> 0, fields |-> F_PLAIN,
      hasUtt |-> TRUE, utts |-> <<>>]}
    \cup UNION {{[readable |-> TRUE, shape |-> "item", bad |-> b, fields |-> F_PLAIN,
                   hasUtt |-> TRUE, utts |-> [j \in 1..n |-> U_LONG(j)]] :
                     b \in 0..(n - 1)} : n \in 1..MaxLongUtt}

InitShapes ==
    /\ pc = "start"
    /\ variant = "main"
    /\ NoBatch
    /\ input \in LongInputs \cup OtherShapes \cup {NoInput}
    /\ backend = LongResponses
    /\ Idle
    /\ IdleChat

SpecShapes == InitShapes /\ [][Next]_vars

----------------------------------------------------------------------------
(* process_single_file of either variant on transcripts whose utterances    *)
(* may have an empty speaker and an empty text                               *)

\* an utterance with the empty string for its speaker and for its text
U_EMPTY == {<<"speaker", "''">>, <<"sentences", "''">>}

\* an utterance an earlier run has flagged as interrupted
U_FLAGGED == {<<"speaker", "B">>, <<"sentences", "hi">>,
              <<"isLastSentenceInterrupted", "true">>, <<"isQuestion", "true">>}

WindowInputs ==
    {[readable |-> TRUE, shape |-> "ok", bad |-> 0, fields |-> F_PLAIN, hasUtt |-> TRUE,
      utts |-> u] :
        u \in UNION {[1..n -> {U_PLAIN, U_EMPTY, U_FLAGGED}] : n \in 1..MaxWinUtt}}

\* an exchange throws, or returns an object whose didInterrupt is true, or
\* one whose didInterrupt is false
WindowResponses == LongResponses \cup {Reply(R_BARE)}

InitWindows ==
    /\ pc = "start"
    /\ variant \in {"main", "base"}
    /\ NoBatch
    /\ input \in WindowInputs
    /\ backend = WindowResponses
    /\ Idle
    /\ IdleChat

SpecWindows == InitWindows /\ [][Next]_vars

----------------------------------------------------------------------------
(* chat_with_retry called on its own, with any max_retries                   *)

InitRetry ==
    /\ input = NoInput
    /\ variant = "main"
    /\ NoBatch
    /\ backend = AllResponses
    /\ Idle
    /\ caller = "lone"
    /\ max_retries \in 0..MaxRetries
    /\ attempt = 1
    /\ calls = 0
    /\ history = <<>>
    /\ response = NoResponse
    /\ ret = None
    /\ pc = IF max_retries >= 1 THEN "chat" ELSE "returned"

NextRetry ==
    \/ ChatThrows
    \/ ChatReplies

SpecRetry == InitRetry /\ [][NextRetry]_vars

----------------------------------------------------------------------------
(* extract_json_from_response called on its own, with any text               *)

\* the pieces response texts are put together from
Chunks ==
    {<<THINK>>, <<ENDTHINK>>, <<FENCE>>, <<JSONTAG>>, <<WS>>, <<LB>>, <<RB>>, <<X>>,
     <<Body(D_A)>>,
     <<THINK, X, ENDTHINK>>,
     <<LB, Body(D_A), RB>>,
     <<LB, Body(D_STR), RB>>,
     <<FENCE, JSONTAG, WS, LB, Body(D_QI), RB, WS, FENCE>>,
     <<FENCE, LB, Body(D_A), RB, FENCE>>,
     <<FENCE, LB, X, RB, FENCE>>}

Texts == {Concat(cs) : cs \in UNION {[1..n -> Chunks] : n \in 0..MaxChunks}}

InitCoerce ==
    /\ input = NoInput
    /\ variant = "main"
    /\ NoBatch
    /\ backend = {}
    /\ Idle
    /\ caller = "none"
    /\ max_retries = 0
    /\ attempt = 0
    /\ calls = 0
    /\ history = <<>>
    /\ response \in {Reply(t) : t \in Texts}
    /\ ret = None
    /\ pc = "coerce"

\* the call: the value comes back, or an exception leaves the function
Coerce ==
    /\ pc = "coerce"
    /\ LET e == extract_json_from_response(response.text)
       IN  /\ ret' = e.val
           /\ pc' = IF e.raised THEN "crashed" ELSE "coerced"
    /\ UNCHANGED <<variant, files_to_process, idx, outputs, exchanges,
                   backend, input, data, utterances, i, sample, window, caller,
                   max_retries, attempt, calls, history, response,
                   interviewCalls, interviewRets, queried, failed, output>>

NextCoerce == Coerce

SpecCoerce == InitCoerce /\ [][NextCoerce]_vars


----------------------------------------------------------------------------
(* Claims *)

FailKinds == {"throw", "nocoerce"}

\* whether a backend response coerces to a result
Coercible(r) == ~r.threw /\ ExtractTry(r.text).val.ok /\ ~ExtractTry(r.text).raised

\* C1: chat_with_retry, for any max_retries >= 1 and any responses, stops at
\* the first attempt whose response coerces and returns that result after
\* exactly that many calls; if none of the first max_retries responses
\* coerces it returns None after exactly max_retries calls.
C1_StopsAtFirstCoercible ==
    max_retries >= 1 /\ pc \in {"chat", "returned"} =>
        /\ calls = Len(history)
        /\ calls <= max_retries
        /\ pc = "chat" =>
             /\ calls < max_retries
             /\ \A k \in 1..calls : history[k] \in FailKinds
             /\ calls > 0 => ~Coercible(response)
        /\ pc = "returned" =>
             /\ calls >= 1
             /\ \A k \in 1..(calls - 1) : history[k] \in FailKinds
             /\ IF Coercible(response)
                THEN /\ history[calls] = "coerce"
                     /\ ret = ExtractTry(response.text).val
                ELSE /\ history[calls] \in FailKinds
                     /\ calls = max_retries
                     /\ ret = None

\* fail, fail, succeed with max_retries = 3: the third result after 3 calls
C1_Witness ==
    /\ pc = "returned"
    /\ caller = "lone"
    /\ max_retries = 3
    /\ history = <<"nocoerce", "nocoerce", "coerce">>
    /\ calls = 3
    /\ ret = Some(D_QI)

\* C2: an exchange that throws is caught, uses up one attempt exactly as an
\* uncoercible response does, does not end the remaining attempts and never
\* leaves chat_with_retry: the call returns a result or None.
C2_ThrowIsOneFailedAttempt ==
    /\ pc # "crashed"
    /\ pc = "chat" /\ max_retries >= 1 =>
         /\ attempt = Len(history) + 1
         /\ attempt <= max_retries
    /\ pc = "returned" /\ max_retries >= 1 =>
         /\ ret = None \/ ret.ok
         /\ (\E k \in 1..Len(history) : history[k] = "throw") /\ ~Coercible(response) =>
              /\ Len(history) = max_retries
              /\ ret = None

\* throw, malformed, throw with max_retries = 3: None after 3 calls
C2_Witness ==
    /\ pc = "returned"
    /\ caller = "lone"
    /\ max_retries = 3
    /\ history = <<"throw", "nocoerce", "throw">>
    /\ ret = None

IsLastInt(u) == Get(u, "isLastSentenceInterrupted", "absent")

\* the 0-based utterance indices the loop has dealt with
Processed == {k \in 0..(Len(utterances) - 1) : k < i}

\* C3: every utterance the pass has dealt with carries isQuestion and
\* isAnswer, both false where the query returned None; a readable file
\* always comes to its output, with every utterance annotated, whatever
\* the backend does.
C3_EveryUtteranceAnnotated ==
    /\ pc # "crashed"
    /\ \A k \in Processed :
         /\ HasKey(utterances[k + 1], "isQuestion")
         /\ HasKey(utterances[k + 1], "isAnswer")
         /\ k \in failed =>
              /\ Get(utterances[k + 1], "isQuestion", "absent") = "false"
              /\ Get(utterances[k + 1], "isAnswer", "absent") = "false"
    /\ pc = "done" /\ input.readable =>
         /\ output.written
         /\ Processed = 0..(Len(input.utts) - 1)
         /\ output.utts = utterances

\* every attempt of every query failed, and the output is all false
C3_Witness ==
    /\ pc = "done"
    /\ output.written
    /\ Len(output.utts) >= 2
    /\ interviewRets = <<None>>
    /\ failed = 0..(Len(output.utts) - 1)
    /\ \A k \in 1..Len(output.utts) :
         /\ Get(output.utts[k], "isQuestion", "absent") = "false"
         /\ Get(output.utts[k], "isAnswer", "absent") = "false"

\* C4: applying a result with didInterrupt = true for utterance i > 0 sets
\* isLastSentenceInterrupted of utterance i-1 to true and leaves the flag
\* of every other utterance as it was; for i = 0 no flag changes.
C4_InterruptMarksPrevious ==
    [][(/\ pc = "returned"
        /\ caller = "analyze"
        /\ ret.ok
        /\ Get(ret.obj, "didInterrupt", "absent") = "true")
       => /\ Len(utterances') = Len(utterances)
          /\ i > 0 => IsLastInt(utterances'[i]) = "true"
          /\ \A j \in 1..Len(utterances) :
               j # i => IsLastInt(utterances'[j]) = IsLastInt(utterances[j])]_vars

\* the result of the utterance at index 3 has marked the one at index 2 only
C4_Witness ==
    /\ pc = "loop"
    /\ i = 4
    /\ Len(utterances) >= 5
    /\ IsLastInt(utterances[3]) = "true"
    /\ \A j \in 1..Len(utterances) : j # 3 => IsLastInt(utterances[j]) = "absent"

\* C5 as claimed: an interruption flag changes only in the step that
\* applies the result of the next utterance, and only when that result's
\* didInterrupt is the boolean true.
C5_FlagOnlyOnBooleanTrue ==
    [][\A j \in 1..Len(utterances) :
         (Len(utterances') = Len(utterances)
          /\ IsLastInt(utterances'[j]) # IsLastInt(utterances[j]))
         => /\ pc = "returned"
            /\ caller = "analyze"
            /\ i = j
            /\ ret.ok
            /\ Get(ret.obj, "didInterrupt", "absent") = "true"]_vars

\* C6: isInterview is computed exactly once, by one query of at most 3
\* exchanges whose sample holds the headline and the first min(6, n)
\* utterances in order, and it is assigned before the first per-utterance
\* query starts.
C6_InterviewOnceFromPrefixFirst ==
    /\ interviewCalls <= 1
    /\ Len(interviewRets) <= interviewCalls
    /\ input.readable /\ pc \notin {"start", "loaded"} => interviewCalls = 1
    /\ interviewCalls = 1 =>
         /\ sample.headline = Get(input.fields, "headline", "''")
         /\ Len(sample.lines) = (IF Len(input.utts) < 6 THEN Len(input.utts) ELSE 6)
         /\ \A j \in 1..Len(sample.lines) : sample.lines[j] = Slot(input.utts[j])
    /\ caller = "interview" =>
         /\ calls <= 3
         /\ queried = <<>>
         /\ interviewRets = <<>>
    /\ (caller = "analyze" \/ queried # <<>> \/ output.written) =>
         /\ Len(interviewRets) = 1
         /\ HasKey(data, "isInterview")

\* a transcript of more than 6 utterances, sampled and annotated to the end
C6_Witness ==
    /\ pc = "done"
    /\ output.written
    /\ Len(input.utts) > 6
    /\ Len(sample.lines) = 6
    /\ Len(queried) = Len(input.utts)

\* C7: when the interview query returns None or an object without
\* isInterview, isInterview is false after phase 1 and phase 2 still
\* queries every utterance 0..n-1.
C7_InterviewDefaultsToFalse ==
    (/\ Len(interviewRets) = 1
     /\ ~interviewRets[1].ok \/ ~HasKey(interviewRets[1].obj, "isInterview"))
    => /\ pc # "crashed"
       /\ Get(data, "isInterview", "absent") = "false"
       /\ pc = "done" =>
            /\ output.written
            /\ Get(output.fields, "isInterview", "absent") = "false"
            /\ queried = [j \in 1..Len(input.utts) |-> j - 1]

\* the query gave None, the stale isInterview = true of the input is
\* replaced by false, and both utterances were queried
C7_Witness ==
    /\ pc = "done"
    /\ input.fields = F_BARE
    /\ interviewRets = <<None>>
    /\ Get(output.fields, "isInterview", "absent") = "false"
    /\ Len(queried) >= 2

IsDict(d) == \A p1 \in d : \A p2 \in d : p1[1] = p2[1] => p1 = p2

NoBraces(s) == Positions(s, LB) = {} /\ Positions(s, RB) = {}

\* C8: extract_json_from_response never raises: it returns a mapping or
\* None, and None for every text without a brace.
C8_NeverRaises ==
    /\ pc # "crashed"
    /\ pc = "coerced" =>
         /\ ret = None \/ (ret.ok /\ IsDict(ret.obj))
         /\ NoBraces(response.text) => ret = None

\* json.loads raised inside the function and None came back
C8_Witness ==
    /\ pc = "coerced"
    /\ ExtractTry(response.text).raised
    /\ ret = None

\* what lies between the fences at p and q, without the json tag and the
\* whitespace
BlockInner(s, p, q) ==
    LET a == IF s[p + 1] = JSONTAG THEN p + 2 ELSE p + 1
    IN  SelectSeq(Slice(s, a, q - 1), LAMBDA t : t # WS)

\* the fences before position p pair up, so that a fence at p opens a block
OpensBlock(s, p) == Cardinality(Positions(Slice(s, 1, p - 1), FENCE)) % 2 = 0

\* s[p..q] is a fenced block that holds one well-formed object
WellFormedBlock(s, p, q) ==
    /\ p < q
    /\ s[p] = FENCE
    /\ s[q] = FENCE
    /\ LET inner == BlockInner(s, p, q)
       IN  \/ inner = <<LB, RB>>
           \/ Len(inner) = 3 /\ inner[1] = LB /\ inner[2].t = "body" /\ inner[3] = RB

BlockObj(s, p, q) ==
    LET inner == BlockInner(s, p, q) IN IF Len(inner) = 3 THEN inner[2].d ELSE {}

\* a well-formed block that no reasoning segment reaches into
CleanBlock(s, p, q) ==
    /\ WellFormedBlock(s, p, q)
    /\ StripThink(s) = StripThink(Slice(s, 1, p - 1)) \o Slice(s, p, q)
                         \o StripThink(Slice(s, q + 1, Len(s)))

\* position r holds a fence that an opening brace follows, after an
\* optional json tag and whitespace
OpensBrace(s, r) ==
    /\ s[r] = FENCE
    /\ LET a == IF r + 1 <= Len(s) /\ s[r + 1] = JSONTAG THEN r + 2 ELSE r + 1
       IN  SkipWs(s, a) <= Len(s) /\ s[SkipWs(s, a)] = LB

\* nothing that is left before p once the reasoning segments are gone opens
\* a brace behind a fence
NoEarlierOpener(s, p) ==
    LET pre == StripThink(Slice(s, 1, p - 1)) \o <<FENCE>>
    IN  \A r \in 1..Len(pre) : ~OpensBrace(pre, r)

\* C9 as claimed: a response that holds a well-formed fenced block gives
\* the object of a well-formed fenced block of it, whatever surrounds it.
C9_FencedBlockAlwaysWins ==
    pc = "coerced" =>
        \A p, q \in 1..Len(response.text) :
            (CleanBlock(response.text, p, q) /\ OpensBlock(response.text, p)) =>
                \E p2, q2 \in 1..Len(response.text) :
                    /\ WellFormedBlock(response.text, p2, q2)
                    /\ ret = Some(BlockObj(response.text, p2, q2))

\* C9 amended: a response whose first fence followed by an opening brace
\* opens a well-formed fenced block gives the object of that block,
\* whatever else surrounds it.
C9_FirstFencedBlockWins ==
    pc = "coerced" =>
        \A p, q \in 1..Len(response.text) :
            (CleanBlock(response.text, p, q) /\ NoEarlierOpener(response.text, p)) =>
                ret = Some(BlockObj(response.text, p, q))

\* a reasoning segment with an object of its own, other text, then the
\* fenced block whose object comes back
C9_Witness ==
    /\ pc = "coerced"
    /\ response.text = <<THINK, X, ENDTHINK, LB, Body(D_A), RB,
                         FENCE, JSONTAG, WS, LB, Body(D_QI), RB, WS, FENCE>>
    /\ ret = Some(D_QI)

\* the part of a dict the annotation does not own
Rest(u) == Without(u, OwnedUtteranceFields)

\* C10: the annotation keeps the length and order of the utterances and
\* every field it does not own, of the transcript and of each utterance.
C10_OtherFieldsPreserved ==
    /\ input.readable /\ pc # "start" =>
         /\ Len(utterances) = Len(input.utts)
         /\ \A j \in 1..Len(utterances) : Rest(utterances[j]) = Rest(input.utts[j])
         /\ Without(data, OwnedFields) = Without(input.fields, OwnedFields)
    /\ output.written =>
         /\ output.hasUtt = input.hasUtt
         /\ Len(output.utts) = Len(input.utts)
         /\ \A j \in 1..Len(output.utts) : Rest(output.utts[j]) = Rest(input.utts[j])
         /\ Without(output.fields, OwnedFields) = Without(input.fields, OwnedFields)

\* two different utterances, annotated and written in their order
C10_Witness ==
    /\ pc = "done"
    /\ output.written
    /\ input.utts = <<U_PLAIN, U_BARE>>
    /\ output.utts # input.utts
    /\ Get(output.utts[1], "timestamp", "absent") = "t1"
    /\ Get(output.utts[1], "isLastSentenceInterrupted", "absent") = "true"
    /\ Get(output.fields, "url", "absent") = "u"

\* C11: for every input file that json.load parses, process_single_file
\* reaches json.dump and writes the output file: nothing raises between the
\* read and the write, whatever the backend does and whatever the shape of
\* the parsed document.
C11_ReadableFileIsWritten ==
    /\ input.readable => pc # "crashed"
    /\ input.readable /\ pc = "done" => output.written

\* C12: in the 4-slot variant, for a transcript of n >= 1 utterances and
\* every index i in 0..n-1, the window given to analyze_utterance is:
\* pre-previous = utterance i-2 if i >= 2 else the N/A slot, previous =
\* utterance i-1 if i >= 1 else the N/A slot, current = utterance i, next =
\* utterance i+1 if i < n-1 else the N/A slot.
C12_WindowIsExact ==
    caller = "analyze" /\ variant = "main" =>
        LET n == Len(input.utts)
            U(j) == Slot(input.utts[j + 1])
        IN  /\ n >= 1
            /\ i \in 0..(n - 1)
            /\ window.pp = (IF i >= 2 THEN U(i - 2) ELSE NA)
            /\ window.p = (IF i >= 1 THEN U(i - 1) ELSE NA)
            /\ window.c = U(i)
            /\ window.n = (IF i < n - 1 THEN U(i + 1) ELSE NA)
            /\ NA = [speaker |-> "N/A", text |-> "N/A"]

\* n = 5, index 2: the four slots hold utterances 0, 1, 2 and 3
C12_Witness ==
    /\ caller = "analyze"
    /\ variant = "main"
    /\ Len(input.utts) = 5
    /\ i = 2
    /\ window = [pp |-> [speaker |-> "1", text |-> "hi"],
                 p |-> [speaker |-> "2", text |-> "hi"],
                 c |-> [speaker |-> "3", text |-> "hi"],
                 n |-> [speaker |-> "4", text |-> "hi"]]

\* utterances whose text is the empty string
EmptyTextUtterances == {U_BARE, U_EMPTY}

\* C13: in both variants a slot whose utterance does not exist is the N/A
\* slot for speaker and text, so the window built when a neighbour does not
\* exist differs from the window built when the neighbour exists with
\* empty text.
C13_AbsentSlotIsSentinel ==
    caller = "analyze" =>
        LET absent == (IF i = 0 THEN {window.p} ELSE {})
                      \cup (IF variant = "main" /\ i < 2 THEN {window.pp} ELSE {})
                      \cup (IF variant = "main" /\ i >= Len(utterances) - 1
                            THEN {window.n} ELSE {})
        IN  \A slot \in absent :
              /\ slot = NA
              /\ \A u \in EmptyTextUtterances : slot # Slot(u)

\* JSON true and false
Booleans == {"true", "false"}

\* C14: once determine_is_interview has returned, isInterview is a boolean,
\* and every utterance the pass has dealt with has a boolean isQuestion and
\* a boolean isAnswer, whatever values the fields of the backend's object
\* hold.
C14_AnnotationsAreBooleans ==
    /\ Len(interviewRets) = 1 => Get(data, "isInterview", "absent") \in Booleans
    /\ \A k \in Processed :
         /\ Get(utterances[k + 1], "isQuestion", "absent") \in Booleans
         /\ Get(utterances[k + 1], "isAnswer", "absent") \in Booleans

\* C15: whenever the response, once its reasoning segments are stripped,
\* holds a fenced code block, the fence takes priority over the brace span:
\* if the content of the (first) fenced block is malformed the result is
\* None, never an object found by the first-brace/last-brace search.
C15_MalformedFenceGivesNone ==
    pc = "coerced" =>
        LET s == StripThink(response.text)
            fs == Positions(s, FENCE)
        IN  Cardinality(fs) >= 2 =>
              LET p == Min(fs)
                  q == Min(fs \ {p})
              IN  BlockInner(s, p, q) # <<>> /\ ~WellFormedBlock(s, p, q)
                    => ret = None

\* C16: when the fence pattern matches nowhere, the text parsed is exactly
\* the span from the first opening brace to the last closing brace, if both
\* exist and the last closing brace is after the first opening brace, and
\* the result is None otherwise; no shorter span is tried, so a span that
\* holds a further brace (two objects with text between them) gives None.
C16_ParsesFirstToLastBrace ==
    pc = "coerced" /\ FenceSearch(StripThink(response.text)) = <<>> =>
        LET s == StripThink(response.text)
            lb == Positions(s, LB)
            rb == Positions(s, RB)
        IN  IF lb # {} /\ rb # {} /\ Max(rb) > Min(lb)
            THEN LET inner == SelectSeq(Slice(s, Min(lb) + 1, Max(rb) - 1),
                                        LAMBDA t : t # WS)
                 IN  /\ ret = IF inner = <<>> THEN Some({})
                              ELSE IF Len(inner) = 1 /\ inner[1].t = "body"
                                   THEN Some(inner[1].d)
                                   ELSE None
                     /\ (\E b \in lb \cup rb : Min(lb) < b /\ b < Max(rb))
                          => ret = None
            ELSE ret = None

\* two objects with text between them and no fence: None
C16_Witness ==
    /\ pc = "coerced"
    /\ response.text = <<LB, Body(D_A), RB, X, LB, Body(D_STR), RB>>
    /\ ret = None

\* C17: a response that coerces to an object is accepted whatever fields
\* the object has, the empty object included: chat_with_retry returns it at
\* once and no exchange follows for that query; the annotator then stores
\* false for a missing isQuestion or isAnswer, sets no interruption flag
\* when didInterrupt is missing, and goes on to the next utterance.
C17_PartialResultAccepted ==
    [][/\ (pc = "chat" /\ exchanges' # exchanges /\ Coercible(response')) =>
            /\ pc' = "returned"
            /\ ret'.ok
            /\ ret' = ExtractTry(response'.text).val
       /\ pc = "returned" => exchanges' = exchanges
       /\ (pc = "returned" /\ caller = "analyze" /\ ret.ok) =>
            /\ pc' = "loop"
            /\ i' = i + 1
            /\ Len(utterances') = Len(utterances)
            /\ Get(utterances'[i + 1], "isQuestion", "absent") =
                 (IF HasKey(ret.obj, "isQuestion")
                  THEN Get(ret.obj, "isQuestion", "absent") ELSE "false")
            /\ Get(utterances'[i + 1], "isAnswer", "absent") =
                 (IF HasKey(ret.obj, "isAnswer")
                  THEN Get(ret.obj, "isAnswer", "absent") ELSE "false")
            /\ ~HasKey(ret.obj, "didInterrupt") =>
                 \A j \in 1..Len(utterances) :
                     IsLastInt(utterances'[j]) = IsLastInt(utterances[j])
      ]_vars

\* the second utterance's first response is the empty object: returned
\* after one exchange
C17_Witness ==
    /\ pc = "returned"
    /\ caller = "analyze"
    /\ i = 1
    /\ ret = Some({})
    /\ calls = 1

\* C18: in a batch, a file that cannot be read is left without an output
\* and without a backend exchange, nothing is raised, and main goes on with
\* the next file in order: the run only ends when every file of the batch
\* has been dealt with, every readable one written.
C18_UnreadableFileIsSkipped ==
    /\ pc # "crashed"
    /\ Len(outputs) = (IF pc = "main" THEN idx ELSE idx - 1)
    /\ pc # "main" =>
         /\ idx \in 1..Len(files_to_process)
         /\ input = files_to_process[idx]
         /\ ~input.readable =>
              /\ pc \in {"start", "done"}
              /\ exchanges = 0
              /\ ~output.written
    /\ \A j \in 1..Len(outputs) :
         IF files_to_process[j].readable
         THEN outputs[j].output.written
         ELSE outputs[j] = [output |-> NoOutput, exchanges |-> 0]
    /\ \/ pc = "main" /\ idx = Len(files_to_process)
       \/ ENABLED NextBatch

\* an unreadable file, then a transcript: the first has no output and no
\* exchange, the second is written
C18_Witness ==
    /\ pc = "main"
    /\ Len(files_to_process) = 2
    /\ ~files_to_process[1].readable
    /\ Len(outputs) = 2
    /\ outputs[1] = [output |-> NoOutput, exchanges |-> 0]
    /\ outputs[2].output.written
    /\ Len(outputs[2].output.utts) = 1

\* queries started so far for the file, and those that have returned
QueriesStarted == interviewCalls + Len(queried)
QueriesReturned == Len(interviewRets) + i

\* C19: when every exchange returns or throws, the annotation of a readable
\* transcript of n utterances comes to its end, having made at least n+1
\* and at most 3*(n+1) exchanges; every query starts at attempt 1 and makes
\* between 1 and 3 exchanges, whatever the queries before it used.
C19_TerminatesWithinBudget ==
    /\ [](input.readable =>
            /\ pc = "chat" => attempt = calls + 1 /\ attempt <= DefaultRetries
            /\ pc = "chat" /\ calls = 0 => attempt = 1
            /\ pc = "returned" => calls \in 1..DefaultRetries
            /\ exchanges >= QueriesReturned
            /\ exchanges <= DefaultRetries * QueriesStarted
            /\ pc = "done" =>
                 /\ QueriesReturned = Len(input.utts) + 1
                 /\ exchanges >= Len(input.utts) + 1
                 /\ exchanges <= 3 * (Len(input.utts) + 1))
    /\ <>(pc = "done")

\* two utterances, every exchange failing: done after 9 exchanges
C19_Witness ==
    /\ pc = "done"
    /\ output.written
    /\ Len(input.utts) = 2
    /\ exchanges = 9

\* the step of the loop that applies the result of utterance k (0-based)
StepOf(k) == pc = "returned" /\ caller = "analyze" /\ i = k

\* C20: in both variants, during the pass utterance i's isQuestion and
\* isAnswer are written at step i, which happens once, and by no other
\* step; the only other write to an utterance is step i+1 setting utterance
\* i's isLastSentenceInterrupted to true; the flag is never set to false or
\* removed, a true flag stays true up to the written file, and the flag of
\* the last utterance is never written.
C20_WritesAreOnceAndMonotone ==
    [][pc # "start" =>
        /\ Len(utterances') = Len(utterances)
        /\ i' = (IF pc = "returned" /\ caller = "analyze" THEN i + 1 ELSE i)
        /\ pc = "loop" /\ pc' = "done" => output'.utts = utterances
        /\ \A j \in 1..Len(utterances) :
             LET u == utterances[j]
                 v == utterances'[j]
             IN  /\ StepOf(j - 1) => HasKey(v, "isQuestion") /\ HasKey(v, "isAnswer")
                 /\ ~StepOf(j - 1) =>
                      /\ Get(v, "isQuestion", "absent") = Get(u, "isQuestion", "absent")
                      /\ Get(v, "isAnswer", "absent") = Get(u, "isAnswer", "absent")
                 /\ IsLastInt(v) # IsLastInt(u) => StepOf(j) /\ IsLastInt(v) = "true"
                 /\ IsLastInt(u) = "true" => IsLastInt(v) = "true"
                 /\ HasKey(u, "isLastSentenceInterrupted") =>
                      HasKey(v, "isLastSentenceInterrupted")
                 /\ j = Len(utterances) => IsLastInt(v) = IsLastInt(u)
                 /\ Without(v, OwnedUtteranceFields) = Without(u, OwnedUtteranceFields)
      ]_vars

\* the first utterance came flagged, the second did not interrupt: the flag
\* is still true after step 1
C20_Witness ==
    /\ pc = "loop"
    /\ i = 2
    /\ input.utts[1] = U_FLAGGED
    /\ Get(utterances[2], "isAnswer", "absent") = "true"
    /\ Get(utterances[1], "isQuestion", "absent") = "false"
    /\ IsLastInt(utterances[1]) = "true"

============================================================================
